---- MODULE Spec2Model ----
(***************************************************************************)
(* Model of the Lyrics Translator application (src/app.py): the window's   *)
(* state (TranslationApp), the worker thread (TranslationWorker) and the   *)
(* batch sequencer formed by start_batch_translation,                      *)
(* translate_next_file_in_batch, handle_batch_translation_result,          *)
(* handle_batch_error and batch_translation_finished.                      *)
(*                                                                         *)
(* Every slot of the main thread runs to completion and is one action.     *)
(* The worker thread contributes two steps of its own: the engine call     *)
(* resolving (run() emits finished or error, a queued signal) and the      *)
(* thread leaving run().                                                   *)
(***************************************************************************)
EXTENDS Integers, Sequences, FiniteSets, TLC

\* ---------------------------------------------------------------- bounds
MaxFiles == 2        \* longest selection the file dialog returns
MaxTime == 1         \* last second of the wall clock

\* ------------------------------------------------------------ the universe
GLM == "GLM-4-Flash"
LocalEngine == "Local Engine"
Engines == {GLM, LocalEngine}
Langs == {"English", "Chinese"}
Keys == {"", "key"}
Texts == {"", " ", "T"}

\* A path is directory + stem + extension; the dialog returns absolute paths.
Paths ==
  { [dir |-> "d1", stem |-> "a", ext |-> "txt"],
    [dir |-> "d1", stem |-> "a", ext |-> "lrc"],
    [dir |-> "d2", stem |-> "a", ext |-> "txt"] }

\* What reading a file returns when the read succeeds.
Content(p) == IF p.ext = "lrc" THEN " " ELSE IF p.dir = "d2" THEN "" ELSE "T"

Distinct(s) == \A i, j \in 1..Len(s) : i # j => s[i] # s[j]

\* What QFileDialog.getOpenFileNames can return when accepted.
Selections ==
  UNION { { s \in [1..n -> Paths] : Distinct(s) } : n \in 1..MaxFiles }

\* ------------------------------------------------------- pure helpers
\* os.path.basename: the path without its directory (a relative name).
basename(p) == [p EXCEPT !.dir = ""]

\* os.path.dirname
dirname(p) == p.dir

\* str.lower of a language name
Lower(l) == IF l = "English" THEN "english" ELSE "chinese"

\* str.strip of a text
Strip(t) == IF t = " " THEN "" ELSE t

\* save_translated_file's path: splitext keeps the directory of its argument
\* in base; os.path.join drops the first component when the second is
\* absolute, so the result's directory is the argument's directory.
SavePath(original_filename, target_lang, timestamp) ==
  [dir |-> dirname(original_filename), stem |-> original_filename.stem,
   lang |-> target_lang, ts |-> timestamp, ext |-> "lrc"]

\* No TranslationWorker has been created yet.
NoWorker ==
  [mode |-> "none", filename |-> "", idx |-> 0, text |-> "", target_lang |-> "",
   engine |-> "", st |-> "handled", alive |-> FALSE]

Ev(e, i) == [ev |-> e, i |-> i]

\* The file name of a message that names no file.
NoName == [dir |-> "", stem |-> "", ext |-> ""]

\* QMessageBox.critical with this title, shown while the cursor is at item;
\* filename is the file name its text gives (NoName when it gives none).
Box(title, item, filename) ==
  [title |-> title, item |-> item, filename |-> filename]

\* ------------------------------------------------------------ the engines
\* A text is a sequence of characters; NL is the line break.
MaxChars == 3        \* longest text handed to the local engine
MaxErr == 2          \* longest error text of the remote API, in tokens
NL == "\n"
Chars == {"a", NL}
InputTexts == UNION { [1..n -> Chars] : n \in 0..MaxChars }

\* The positions of the line breaks of a text.
Breaks(t) == { j \in 1..Len(t) : t[j] = NL }

\* The position of the k-th line break; 0 stands before the text and
\* Len(t) + 1 after it.
BreakAt(t, k) ==
  IF k = 0 THEN 0
  ELSE IF k > Cardinality(Breaks(t)) THEN Len(t) + 1
  ELSE CHOOSE j \in Breaks(t) :
         Cardinality({ b \in Breaks(t) : b < j }) = k - 1

\* str.split('\n'): the pieces between the line breaks, at least one piece.
Split(t) ==
  [k \in 1..(Cardinality(Breaks(t)) + 1) |->
     SubSeq(t, BreakAt(t, k - 1) + 1, BreakAt(t, k) - 1)]

\* '\n'.join of a non-empty list of lines
RECURSIVE Join(_)
Join(lines) ==
  IF Len(lines) = 1 THEN lines[1]
  ELSE lines[1] \o << NL >> \o Join(Tail(lines))

\* str(n) of a positive integer: its decimal digits
RECURSIVE Str(_)
Str(n) ==
  LET digit == << "0", "1", "2", "3", "4", "5", "6", "7", "8", "9" >>
  IN  IF n < 10 THEN << digit[n + 1] >>
      ELSE Str(n \div 10) \o << digit[(n % 10) + 1] >>

\* str.upper of a lower-cased language name (kept as one token of the text)
Upper(l) == IF l = "english" THEN "ENGLISH" ELSE "CHINESE"

\* LocalTranslator.translate that numbers the lines from 0
local_translate_zero_based(text, target_lang) ==
  LET lines == Split(text)
      translated ==
        [k \in 1..Len(lines) |->
           LET i == k - 1
           IN  << "[", Upper(target_lang), " " >> \o Str(i)
                 \o << "]", " " >> \o lines[k]]
  IN  Join(translated)

\* LocalTranslator.translate that leaves an already prefixed line alone
local_translate_once_only(text, target_lang) ==
  LET lines == Split(text)
      translated ==
        [k \in 1..Len(lines) |->
           LET i == k - 1
           IN  IF lines[k] # << >> /\ lines[k][1] = "["
               THEN lines[k]
               ELSE << "[", Upper(target_lang), " " >> \o Str(i + 1)
                      \o << "]", " " >> \o lines[k]]
  IN  Join(translated)

\* LocalTranslator.translate
LocalTranslator_translate(text, target_lang) ==
  LET lines == Split(text)
      translated ==
        [k \in 1..Len(lines) |->
           LET i == k - 1
           IN  << "[", Upper(target_lang), " " >> \o Str(i + 1)
                 \o << "]", " " >> \o lines[k]]
  IN  Join(translated)

\* The two error texts GLMTranslator.translate looks for, and any other.
AuthText == "Invalid authentication credentials"
RateText == "Rate limit exceeded"
ErrTokens == {AuthText, RateText, "x"}
ErrTexts == UNION { [1..n -> ErrTokens] : n \in 0..MaxErr }

\* What client.chat.completions.create does: it returns a completion with
\* some content, or it raises an exception whose str() is e.
Responses ==
  { [raises |-> FALSE, val |-> c] : c \in { << "b" >>, << RateText >> } }
    \cup { [raises |-> TRUE, val |-> e] : e \in ErrTexts }

\* sub in str(e)
Contains(e, sub) == \E j \in 1..Len(e) : e[j] = sub

\* GLMTranslator.translate that tests the rate limit first
glm_translate_rate_first(response) ==
  IF ~response.raises
  THEN [raised |-> FALSE, val |-> response.val]
  ELSE LET e == response.val
           error_msg ==
             IF Contains(e, RateText)
             THEN << "API Rate Limit Exceeded. Please wait and try again later." >>
             ELSE IF Contains(e, AuthText)
             THEN << "Invalid API Key. Please check your API key in Settings." >>
             ELSE << "API Error: " >> \o e
       IN  [raised |-> TRUE, val |-> error_msg]

\* GLMTranslator.translate, given what the API call does
GLMTranslator_translate(response) ==
  IF ~response.raises
  THEN [raised |-> FALSE, val |-> response.val]
  ELSE LET e == response.val
           error_msg ==
             IF Contains(e, AuthText)
             THEN << "Invalid API Key. Please check your API key in Settings." >>
             ELSE IF Contains(e, RateText)
             THEN << "API Rate Limit Exceeded. Please wait and try again later." >>
             ELSE << "API Error: " >> \o e
       IN  [raised |-> TRUE, val |-> error_msg]

\* TranslationWorker.run: finished carries the result, error the message.
TranslationWorker_run(outcome) ==
  IF outcome.raised
  THEN [sig |-> "error", val |-> outcome.val]
  ELSE [sig |-> "finished", val |-> outcome.val]

\* -------------------------------------------------------------- state
VARIABLES
  file_paths,          \* self.file_paths
  current_file_index,  \* self.current_file_index
  total_files,         \* self.total_files
  file_list,           \* self.file_list_display: items, each name + statuses
  input_text,          \* self.input_text
  buttons_enabled,     \* open/translate/settings buttons and both combos
  engine,              \* self.engine_combo.currentText()
  lang,                \* self.lang_combo.currentText()
  api_key,             \* self.api_key
  worker,              \* self.worker and its thread
  crashed,             \* the process was aborted
  now,                 \* wall clock: seconds since the batch started
  log,                 \* events of the current (or last) run
  saved,               \* files written by that run: save path, source item
  save_enabled,        \* self.save_btn.isEnabled()
  user_saved,          \* save_file has written a file since that run began
  reported,            \* error boxes shown by that run: title, item, file name
  lt_text,             \* a TranslationWorker of its own: the text given to it
  lt_lang,             \*   its target_lang
  lt_out,              \*   what its runs with LocalTranslator emitted
  glm_api,             \*   what the remote API does when called
  glm_out              \*   what its run with GLMTranslator emitted

\* The worker taken on its own, outside the window.
engine_vars == << lt_text, lt_lang, lt_out, glm_api, glm_out >>

vars == << file_paths, current_file_index, total_files, file_list, input_text,
           buttons_enabled, engine, lang, api_key, worker, crashed, now,
           log, saved, save_enabled, user_saved, reported,
           engine_vars >>

\* TranslationApp.__init__ and init_ui
Constructed ==
  /\ file_paths = << >>
  /\ current_file_index = 0
  /\ total_files = 0
  /\ file_list = << >>
  /\ input_text = ""
  /\ buttons_enabled = TRUE
  /\ engine = GLM
  /\ lang = "Chinese"
  /\ api_key \in Keys
  /\ worker = NoWorker
  /\ crashed = FALSE
  /\ now = 0
  /\ log = << >>
  /\ saved = {}
  /\ save_enabled = FALSE
  /\ user_saved = FALSE
  /\ reported = {}

Init ==
  /\ Constructed
  /\ lt_text = << >>
  /\ lt_lang = "chinese"
  /\ lt_out = << >>
  /\ glm_api = [raises |-> FALSE, val |-> << >>]
  /\ glm_out = << >>

\* The part of the state the slots of TranslationApp read and write.
Cur ==
  [paths |-> file_paths, idx |-> current_file_index, total |-> total_files,
   list |-> file_list, input |-> input_text, enabled |-> buttons_enabled,
   worker |-> worker, crashed |-> crashed, now |-> now, log |-> log,
   saved |-> saved, save |-> save_enabled, user_saved |-> user_saved,
   reported |-> reported]

Install(r) ==
  /\ file_paths' = r.paths
  /\ current_file_index' = r.idx
  /\ total_files' = r.total
  /\ file_list' = r.list
  /\ input_text' = r.input
  /\ buttons_enabled' = r.enabled
  /\ worker' = r.worker
  /\ crashed' = r.crashed
  /\ now' = r.now
  /\ log' = r.log
  /\ saved' = r.saved
  /\ save_enabled' = r.save
  /\ user_saved' = r.user_saved
  /\ reported' = r.reported
  /\ UNCHANGED engine_vars

\* ------------------------------------------------------ the list widget
\* QListWidget.item(row) is None when the row does not exist.
HasItem(list, row) == row < Len(list)

\* list_item.setText(f"{original_filename} - <status>") when the item exists
SetStatus(list, row, status) ==
  IF HasItem(list, row)
  THEN [list EXCEPT ![row + 1].st = Append(@, status)]
  ELSE list

\* ------------------------------------------------------------ the slots
\* set_buttons_enabled
set_buttons_enabled(s, enabled) == [s EXCEPT !.enabled = enabled]

\* _prepare_ui_for_translation that forgets set_buttons_enabled(False)
prepare_ui_keeps_buttons(s) == s

\* _prepare_ui_for_translation
_prepare_ui_for_translation(s) == set_buttons_enabled(s, FALSE)

\* self.worker = TranslationWorker(...); connect; self.worker.start().
\* The assignment drops the only reference to the previous worker object; a
\* QThread destroyed while its thread is still running aborts the process.
StartWorker(s, mode, filename, text, target_lang, eng) ==
  IF s.worker.alive
  THEN [s EXCEPT !.crashed = TRUE]
  ELSE [s EXCEPT
          !.worker = [mode |-> mode, filename |-> filename, idx |-> s.idx,
                      text |-> text, target_lang |-> target_lang,
                      engine |-> eng, st |-> "calling", alive |-> TRUE],
          !.log = Append(@, Ev("call", s.idx))]

\* batch_translation_finished that forgets to reset current_file_index
finished_keeps_cursor(s) ==
  [set_buttons_enabled(s, TRUE) EXCEPT
     !.log = Append(@, Ev("finished", s.idx)),
     !.paths = << >>, !.total = 0]

\* batch_translation_finished
batch_translation_finished(s) ==
  [set_buttons_enabled(s, TRUE) EXCEPT
     !.log = Append(@, Ev("finished", s.idx)),
     !.paths = << >>, !.total = 0, !.idx = 0]

RECURSIVE translate_next_file_in_batch(_, _, _, _)
RECURSIVE handle_batch_error(_, _, _)

\* translate_next_file_in_batch.  oc[i] is what the environment does to item
\* i when it is reached: "readfail" (open/read raises), "createfail" (the
\* remote engine's constructor raises) or "ok".
translate_next_file_in_batch(s, eng, target_lang, oc) ==
  IF s.idx < s.total
  THEN IF s.idx >= Len(s.paths)
       THEN \* self.file_paths[...] raises IndexError: the slot is abandoned
            [s EXCEPT !.log = Append(@, Ev("raise", s.idx))]
       ELSE
       LET filepath == s.paths[s.idx + 1]
           filename == basename(filepath)
       IN  IF oc[s.idx] = "readfail"
           THEN handle_batch_error(
                  [s EXCEPT !.log = Append(@, Ev("read_fail", s.idx))],
                  filename, oc)
           ELSE IF ~HasItem(s.list, s.idx)
           THEN \* list_item is None: setData raises inside the same try
                handle_batch_error(
                  [s EXCEPT !.input = Content(filepath),
                            !.log = Append(@, Ev("item_missing", s.idx))],
                  filename, oc)
           ELSE IF eng = GLM /\ oc[s.idx] = "createfail"
           THEN handle_batch_error(
                  [s EXCEPT !.input = Content(filepath),
                            !.log = Append(Append(@, Ev("read_ok", s.idx)),
                                           Ev("create_fail", s.idx))],
                  filename, oc)
           ELSE StartWorker(
                  [s EXCEPT !.input = Content(filepath),
                            !.log = Append(@, Ev("read_ok", s.idx))],
                  "batch", filename, Content(filepath), target_lang, eng)
  ELSE batch_translation_finished(s)

\* handle_batch_error that records the failure and stops the batch there
batch_error_halts(s, filename, oc) ==
  [s EXCEPT
     !.list = SetStatus(@, s.idx, "Error"),
     !.log = Append(IF HasItem(s.list, s.idx)
                    THEN Append(@, Ev("Error", s.idx)) ELSE @,
                    Ev("cursor", s.idx + 1)),
     !.reported = @ \cup { Box("Batch Translation Error", s.idx, filename) },
     !.idx = @ + 1]

\* handle_batch_error that leaves the item's text as it is
batch_error_keeps_status(s, filename, oc) ==
  LET shown == [s EXCEPT
                  !.reported =
                     @ \cup { Box("Batch Translation Error", s.idx, filename) }]
      advanced == [shown EXCEPT
                     !.idx = @ + 1,
                     !.log = Append(@, Ev("cursor", shown.idx + 1))]
  IN  translate_next_file_in_batch(advanced, engine, Lower(lang), oc)

\* handle_batch_error
handle_batch_error(s, filename, oc) ==
  LET marked == [s EXCEPT
                   !.list = SetStatus(@, s.idx, "Error"),
                   !.log = IF HasItem(s.list, s.idx)
                           THEN Append(@, Ev("Error", s.idx)) ELSE @]
      shown == [marked EXCEPT
                  !.reported =
                     @ \cup { Box("Batch Translation Error", s.idx, filename) }]
      advanced == [shown EXCEPT
                     !.idx = @ + 1,
                     !.log = Append(@, Ev("cursor", shown.idx + 1))]
  IN  translate_next_file_in_batch(advanced, engine, Lower(lang), oc)

\* save_translated_file; wr says whether the write succeeds.
save_translated_file(s, original_filename, wr) ==
  LET save_path == SavePath(original_filename, lang, s.now)
  IN  IF wr
      THEN [s EXCEPT
              !.saved = { f \in @ : f.path # save_path }
                          \cup { [path |-> save_path, item |-> s.idx,
                                   src |-> IF s.idx < Len(s.paths)
                                           THEN s.paths[s.idx + 1]
                                           ELSE original_filename] },
              !.log = Append(@, Ev("save_ok", s.idx))]
      ELSE [s EXCEPT !.log = Append(@, Ev("save_fail", s.idx))]

\* handle_batch_translation_result that advances the cursor by two
batch_result_skips_one(s, filename, wr, oc) ==
  LET marked == [s EXCEPT
                   !.list = SetStatus(@, s.idx, "Translated"),
                   !.log = IF HasItem(s.list, s.idx)
                           THEN Append(@, Ev("Translated", s.idx)) ELSE @]
      written == save_translated_file(marked, filename, wr)
      advanced == [written EXCEPT
                     !.idx = @ + 2,
                     !.log = Append(@, Ev("cursor", written.idx + 2))]
  IN  translate_next_file_in_batch(advanced, engine, Lower(lang), oc)

\* handle_batch_translation_result that moves on without the derived save
batch_result_without_save(s, filename, wr, oc) ==
  LET marked == [s EXCEPT
                   !.list = SetStatus(@, s.idx, "Translated"),
                   !.log = IF HasItem(s.list, s.idx)
                           THEN Append(@, Ev("Translated", s.idx)) ELSE @]
      advanced == [marked EXCEPT
                     !.idx = @ + 1,
                     !.log = Append(@, Ev("cursor", marked.idx + 1))]
  IN  translate_next_file_in_batch(advanced, engine, Lower(lang), oc)

\* handle_batch_translation_result that turns the item to Error when the
\* write fails
batch_result_error_on_write_fail(s, filename, wr, oc) ==
  LET marked == [s EXCEPT
                   !.list = SetStatus(@, s.idx, "Translated"),
                   !.log = IF HasItem(s.list, s.idx)
                           THEN Append(@, Ev("Translated", s.idx)) ELSE @]
      written == save_translated_file(marked, filename, wr)
      flipped == IF wr THEN written
                 ELSE [written EXCEPT !.list = SetStatus(@, s.idx, "Error")]
      advanced == [flipped EXCEPT
                     !.idx = @ + 1,
                     !.log = Append(@, Ev("cursor", flipped.idx + 1))]
  IN  translate_next_file_in_batch(advanced, engine, Lower(lang), oc)

\* handle_batch_translation_result that switches the controls back on after
\* every item
batch_result_enables_buttons(s, filename, wr, oc) ==
  LET marked == [s EXCEPT
                   !.list = SetStatus(@, s.idx, "Translated"),
                   !.log = IF HasItem(s.list, s.idx)
                           THEN Append(@, Ev("Translated", s.idx)) ELSE @]
      written == save_translated_file(marked, filename, wr)
      advanced == [written EXCEPT
                     !.idx = @ + 1,
                     !.log = Append(@, Ev("cursor", written.idx + 1))]
  IN  set_buttons_enabled(
        translate_next_file_in_batch(advanced, engine, Lower(lang), oc), TRUE)

\* handle_batch_translation_result
handle_batch_translation_result(s, filename, wr, oc) ==
  LET marked == [s EXCEPT
                   !.list = SetStatus(@, s.idx, "Translated"),
                   !.log = IF HasItem(s.list, s.idx)
                           THEN Append(@, Ev("Translated", s.idx)) ELSE @]
      written == save_translated_file(marked, filename, wr)
      advanced == [written EXCEPT
                     !.idx = @ + 1,
                     !.log = Append(@, Ev("cursor", written.idx + 1))]
  IN  translate_next_file_in_batch(advanced, engine, Lower(lang), oc)

\* start_batch_translation that counts one file too many
start_batch_counts_one_more(s, eng, target_lang, paths, oc) ==
  LET prepared == _prepare_ui_for_translation(s)
      inited == [prepared EXCEPT
                   !.input = "",
                   !.paths = paths, !.total = Len(paths) + 1, !.idx = 0,
                   !.save = FALSE,
                   !.log = << Ev("start", Len(paths)) >>,
                   !.saved = {}, !.user_saved = FALSE, !.reported = {},
                   !.now = 0]
  IN  translate_next_file_in_batch(inited, eng, target_lang, oc)

\* start_batch_translation
start_batch_translation(s, eng, target_lang, paths, oc) ==
  LET prepared == _prepare_ui_for_translation(s)
      inited == [prepared EXCEPT
                   !.input = "",
                   !.paths = paths, !.total = Len(paths), !.idx = 0,
                   !.save = FALSE,
                   !.log = << Ev("start", Len(paths)) >>,
                   !.saved = {}, !.user_saved = FALSE, !.reported = {},
                   !.now = 0]
  IN  translate_next_file_in_batch(inited, eng, target_lang, oc)

\* handle_error that starts the call again
handle_error_retries(s) ==
  StartWorker(
    [set_buttons_enabled(s, TRUE) EXCEPT
       !.reported = @ \cup { Box("Error", s.idx, NoName) }],
    "single", "single_file", s.input, Lower(lang), engine)

\* handle_error
handle_error(s) ==
  [set_buttons_enabled(s, TRUE) EXCEPT
     !.reported = @ \cup { Box("Error", s.idx, NoName) }]

\* handle_translation_result that also writes the result to a file
single_result_saves_too(s) ==
  save_translated_file(set_buttons_enabled(s, TRUE),
                       [dir |-> "", stem |-> "single_file", ext |-> ""], TRUE)

\* handle_translation_result
handle_translation_result(s) == set_buttons_enabled(s, TRUE)

\* start_single_translation; cr says whether the engine instance is created.
start_single_translation(s, eng, target_lang, text, cr) ==
  LET prepared == [_prepare_ui_for_translation(s) EXCEPT
                     !.save = TRUE,
                     !.input = text,
                     !.log = << Ev("single", 0) >>,
                     !.saved = {}, !.user_saved = FALSE,
                     !.reported = {}]
  IN  IF eng = GLM /\ ~cr
      THEN handle_error(
             [prepared EXCEPT !.log = Append(@, Ev("create_fail", 0))])
      ELSE StartWorker(prepared, "single", "single_file", text, target_lang,
                       eng)

\* save_file: the dialog returns a path or is cancelled (accepted); wr says
\* whether the write succeeds.  What is written is the output text.
save_file(s, accepted, wr) ==
  IF accepted /\ wr THEN [s EXCEPT !.user_saved = TRUE] ELSE s

\* start_translation that asks for the API key in single-file mode only
start_translation_batch_unguarded(s, cr, oc) ==
  IF s.paths # << >>
  THEN start_batch_translation(s, engine, Lower(lang), s.paths, oc)
  ELSE LET text == Strip(s.input)
       IN  IF text = "" THEN s
           ELSE IF engine = GLM /\ api_key = "" THEN s
           ELSE start_single_translation(s, engine, Lower(lang), text, cr)

\* start_translation
start_translation(s, cr, oc) ==
  IF s.paths # << >>
  THEN IF engine = GLM /\ api_key = ""
       THEN s
       ELSE start_batch_translation(s, engine, Lower(lang), s.paths, oc)
  ELSE LET text == Strip(s.input)
       IN  IF text = "" THEN s
           ELSE IF engine = GLM /\ api_key = "" THEN s
           ELSE start_single_translation(s, engine, Lower(lang), text, cr)

\* open_files with an accepted selection; rd says whether the single file
\* can be read.
open_files(s, paths, rd) ==
  LET cleared == [s EXCEPT !.paths = paths, !.input = "", !.list = << >>,
                           !.log = << Ev("open", Len(paths)) >>,
                           !.saved = {}, !.user_saved = FALSE,
                           !.reported = {}]
  IN  IF Len(paths) > 1
      THEN [cleared EXCEPT
              !.list = [i \in 1..Len(paths) |->
                          [name |-> basename(paths[i]), st |-> << >>]]]
      ELSE IF rd
           THEN [cleared EXCEPT !.input = Content(paths[1]), !.paths = << >>]
           ELSE cleared

\* ------------------------------------------------------------- actions
Outcomes == [0..(MaxFiles - 1) -> {"ok", "readfail", "createfail"}]

\* The outcomes that can matter to a slot that goes through items from..to-1
\* with engine eng: only the remote engine's constructor can raise, and the
\* slot returns at the first item whose worker it starts.
OutcomesFor(from, to, eng) ==
  { oc \in Outcomes :
      \A i \in 0..(MaxFiles - 1) :
        /\ (i < from \/ i >= to) => oc[i] = "ok"
        /\ eng # GLM => oc[i] # "createfail"
        /\ (i > from /\ oc[i - 1] = "ok") => oc[i] = "ok" }

\* The main thread's event loop dispatches user input only while the
\* process lives; a disabled widget emits nothing.
UserCan == ~crashed /\ buttons_enabled

OpenFiles ==
  /\ UserCan
  /\ \E paths \in Selections, rd \in BOOLEAN :
       /\ (Len(paths) > 1 => rd)    \* only a single file is read here
       /\ Install(open_files(Cur, paths, rd))
  /\ UNCHANGED << engine, lang, api_key >>

\* open_settings: the dialog stores the key and the window re-reads it.
OpenSettings ==
  /\ UserCan
  /\ \E k \in Keys : api_key' = k
  /\ UNCHANGED << file_paths, current_file_index, total_files, file_list,
                  input_text, buttons_enabled, engine, lang, worker, crashed,
                  now, log, saved, save_enabled, user_saved,
                  reported, engine_vars >>

SelectEngine ==
  /\ UserCan
  /\ \E e \in Engines : engine' = e
  /\ UNCHANGED << file_paths, current_file_index, total_files, file_list,
                  input_text, buttons_enabled, lang, api_key, worker, crashed,
                  now, log, saved, save_enabled, user_saved,
                  reported, engine_vars >>

SelectLang ==
  /\ UserCan
  /\ \E l \in Langs : lang' = l
  /\ UNCHANGED << file_paths, current_file_index, total_files, file_list,
                  input_text, buttons_enabled, engine, api_key, worker,
                  crashed, now, log, saved, save_enabled, user_saved,
                  reported, engine_vars >>

\* The user types into the input QTextEdit (followed here while the
\* controls are enabled; what is typed during a run is never read).
EditInput ==
  /\ UserCan
  /\ \E t \in Texts : input_text' = t
  /\ UNCHANGED << file_paths, current_file_index, total_files, file_list,
                  buttons_enabled, engine, lang, api_key, worker, crashed,
                  now, log, saved, save_enabled, user_saved,
                  reported, engine_vars >>

\* save_btn is not one of the controls set_buttons_enabled switches.
SaveFile ==
  /\ ~crashed
  /\ save_enabled
  /\ \E accepted \in BOOLEAN, wr \in BOOLEAN :
       /\ (~accepted => wr)
       /\ Install(save_file(Cur, accepted, wr))
  /\ UNCHANGED << engine, lang, api_key >>

StartTranslation ==
  /\ UserCan
  /\ \E cr \in BOOLEAN, oc \in OutcomesFor(0, Len(file_paths), engine) :
       /\ (file_paths # << >> \/ engine # GLM) => cr
       /\ Install(start_translation(Cur, cr, oc))
  /\ UNCHANGED << engine, lang, api_key >>

\* TranslationWorker.run: the engine call returns or raises and the worker
\* emits finished or error (queued to the main thread).  The local engine
\* never raises.
WorkerRun ==
  /\ ~crashed
  /\ worker.st = "calling"
  /\ \E ok \in BOOLEAN :
       /\ (worker.engine = LocalEngine => ok)
       /\ worker' = [worker EXCEPT !.st = IF ok THEN "finished" ELSE "error"]
  /\ UNCHANGED << file_paths, current_file_index, total_files, file_list,
                  input_text, buttons_enabled, engine, lang, api_key, crashed,
                  now, log, saved, save_enabled, user_saved,
                  reported, engine_vars >>

\* The worker's thread leaves run() and ends.
WorkerExit ==
  /\ ~crashed
  /\ worker.alive
  /\ worker.st # "calling"
  /\ worker' = [worker EXCEPT !.alive = FALSE]
  /\ UNCHANGED << file_paths, current_file_index, total_files, file_list,
                  input_text, buttons_enabled, engine, lang, api_key, crashed,
                  now, log, saved, save_enabled, user_saved,
                  reported, engine_vars >>

\* The slot has the signal; a worker whose thread has ended and whose
\* signal is consumed is never looked at again.
Handled(s) == [s EXCEPT !.worker = [NoWorker EXCEPT !.alive = s.worker.alive]]

\* The queued finished signal is delivered to the connected slot.
DeliverFinished ==
  /\ ~crashed
  /\ worker.st = "finished"
  /\ \/ /\ worker.mode = "single"
        /\ Install(handle_translation_result(
                     [Handled(Cur) EXCEPT
                        !.log = Append(@, Ev("call_ok", worker.idx))]))
     \/ /\ worker.mode = "batch"
        /\ \E wr \in BOOLEAN,
              oc \in OutcomesFor(current_file_index + 1, total_files, engine) :
             Install(handle_batch_translation_result(
                       [Handled(Cur) EXCEPT
                          !.log = Append(@, Ev("call_ok", worker.idx))],
                       worker.filename, wr, oc))
  /\ UNCHANGED << engine, lang, api_key >>

\* The queued error signal is delivered to the connected slot.
DeliverError ==
  /\ ~crashed
  /\ worker.st = "error"
  /\ \/ /\ worker.mode = "single"
        /\ Install(handle_error(
                     [Handled(Cur) EXCEPT
                        !.log = Append(@, Ev("call_err", worker.idx))]))
     \/ /\ worker.mode = "batch"
        /\ \E oc \in OutcomesFor(current_file_index + 1, total_files, engine) :
             Install(handle_batch_error(
                       [Handled(Cur) EXCEPT
                          !.log = Append(@, Ev("call_err", worker.idx))],
                       worker.filename, oc))
  /\ UNCHANGED << engine, lang, api_key >>

\* A second passes.  Only save_translated_file reads the clock, so it is
\* counted from the start of the batch and followed while a call of the
\* batch is in flight.
Tick ==
  /\ ~crashed
  /\ worker.mode = "batch"
  /\ worker.st \in {"calling", "finished", "error"}
  /\ now < MaxTime
  /\ now' = now + 1
  /\ UNCHANGED << file_paths, current_file_index, total_files, file_list,
                  input_text, buttons_enabled, engine, lang, api_key, worker,
                  crashed, log, saved, save_enabled, user_saved,
                  reported, engine_vars >>

Next ==
  \/ OpenFiles
  \/ OpenSettings
  \/ SelectEngine
  \/ SelectLang
  \/ EditInput
  \/ SaveFile
  \/ StartTranslation
  \/ WorkerRun
  \/ WorkerExit
  \/ DeliverFinished
  \/ DeliverError
  \/ Tick

Spec == Init /\ [][Next]_vars

\* Every engine call returns or raises, the thread that made it leaves
\* run(), and the event loop of the main thread delivers every queued signal.
FairSpec ==
  /\ Spec
  /\ WF_vars(WorkerRun)
  /\ WF_vars(WorkerExit)
  /\ WF_vars(DeliverFinished)
  /\ WF_vars(DeliverError)

\* ----------------------------------------------- the sequencer on its own
\* start_batch_translation called directly with any list of paths, the empty
\* list included (start_translation itself never passes an empty list); the
\* list widget holds the items open_files shows for a selection of 2 or more.
StartBatchDirect ==
  /\ UserCan
  /\ \E paths \in Selections \cup { << >> } :
     \E oc \in OutcomesFor(0, Len(paths), engine) :
       Install(start_batch_translation(
                 [Cur EXCEPT !.list = IF Len(paths) > 1
                                      THEN [i \in 1..Len(paths) |->
                                              [name |-> basename(paths[i]),
                                               st |-> << >>]]
                                      ELSE << >>],
                 engine, Lower(lang), paths, oc))
  /\ UNCHANGED << engine, lang, api_key >>

SeqNext ==
  \/ StartBatchDirect
  \/ SelectEngine
  \/ WorkerRun
  \/ WorkerExit
  \/ DeliverFinished
  \/ DeliverError
  \/ Tick

SeqSpec == Init /\ [][SeqNext]_vars

\* ------------------------------------------------ the worker on its own
\* A TranslationWorker run outside the window: with LocalTranslator on a
\* text, then again on what it emitted, and with GLMTranslator against an
\* API that answers or raises.
MaxPasses == 2       \* runs of the local engine, each fed the previous output

window_vars ==
  << file_paths, current_file_index, total_files, file_list, input_text,
     buttons_enabled, engine, lang, api_key, worker, crashed, now, log,
     saved, save_enabled, user_saved, reported >>

EngineInit ==
  /\ Constructed
  /\ lt_text \in InputTexts
  /\ lt_lang \in { Lower(l) : l \in Langs }
  /\ lt_out = << >>
  /\ glm_api \in Responses
  /\ glm_out = << >>

\* The text the p-th run of the local engine is given.
PassInput(p) == IF p = 1 THEN lt_text ELSE lt_out[p - 1].val

RunLocal ==
  /\ Len(lt_out) < MaxPasses
  /\ lt_out' =
       Append(lt_out,
              TranslationWorker_run(
                [raised |-> FALSE,
                 val |-> LocalTranslator_translate(
                           PassInput(Len(lt_out) + 1), lt_lang)]))
  /\ UNCHANGED << window_vars, lt_text, lt_lang, glm_api, glm_out >>

RunGLM ==
  /\ glm_out = << >>
  /\ glm_out' = << TranslationWorker_run(GLMTranslator_translate(glm_api)) >>
  /\ UNCHANGED << window_vars, lt_text, lt_lang, lt_out, glm_api >>

EngineNext ==
  \/ RunLocal
  \/ RunGLM

EngineSpec == EngineInit /\ [][EngineNext]_vars

\* ------------------------------------------------ reading the run's log
IsBatch == log # << >> /\ log[1].ev = "start"
BatchN == log[1].i
BatchDone == IsBatch /\ log[Len(log)].ev = "finished"
Has(e, i) == \E j \in 1..Len(log) : log[j] = Ev(e, i)

IsStatus(x) == x.ev \in {"Translated", "Error"}
IsCursor(x) == x.ev = "cursor"
IsRead(x) == x.ev \in {"read_ok", "read_fail", "item_missing"}
IsCall(x) == x.ev = "call"
IsResolution(x) == x.ev \in {"call_ok", "call_err"}
IsSaveOk(x) == x.ev = "save_ok"
IsFailure(x) ==
  x.ev \in {"read_fail", "item_missing", "create_fail", "call_err", "raise"}

Statuses == SelectSeq(log, IsStatus)
CursorEvs == SelectSeq(log, IsCursor)
Reads == SelectSeq(log, IsRead)
NoFailure == SelectSeq(log, IsFailure) = << >>

\* An engine call was issued and its finished/error slot has not run yet.
InFlight == worker.st \in {"calling", "finished", "error"}

ItemEvs ==
  {"read_ok", "read_fail", "item_missing", "create_fail", "call", "call_ok",
   "call_err", "Translated", "Error", "save_ok", "save_fail"}

\* ---------------------------------------------------------------- claims

\* C1: in a batch of N >= 2 files, a read failure of item k marks item k
\* Error, advances the cursor by one and goes straight on to item k+1 (or to
\* Finished after the last item); when the batch finishes the cursor is N and
\* every item has exactly one terminal status.
C1_FailForwardOnRead ==
  (IsBatch /\ BatchN >= 2) =>
    /\ \A j \in 1..Len(log) :
         log[j].ev = "read_fail" =>
           LET k == log[j].i
           IN  /\ Len(log) >= j + 3
               /\ log[j + 1] = Ev("Error", k)
               /\ log[j + 2] = Ev("cursor", k + 1)
               /\ IF k + 1 < BatchN
                  THEN log[j + 3].ev \in {"read_ok", "read_fail"}
                       /\ log[j + 3].i = k + 1
                  ELSE log[j + 3] = Ev("finished", BatchN)
               /\ file_list[k + 1].st = << "Error" >>
    /\ BatchDone =>
         /\ log[Len(log)].i = BatchN
         /\ \A k \in 0..(BatchN - 1) :
              /\ Len(file_list[k + 1].st) = 1
              /\ file_list[k + 1].st[1] \in {"Translated", "Error"}

C1_Witness ==
  /\ BatchDone /\ BatchN >= 2
  /\ Has("read_fail", 0)
  /\ Has("Translated", 1)

\* C2: in a batch of N >= 2 files with no read, engine-creation or engine
\* failure, the status transitions are Translated for items 0, 1, ... in this
\* order, never Error, and there are exactly N of them when the batch
\* finishes.
C2_AllTranslatedInOrder ==
  (IsBatch /\ BatchN >= 2 /\ NoFailure) =>
    /\ \A j \in 1..Len(Statuses) : Statuses[j] = Ev("Translated", j - 1)
    /\ BatchDone =>
         /\ Len(Statuses) = BatchN
         /\ \A k \in 0..(BatchN - 1) :
              file_list[k + 1].st = << "Translated" >>

C2_Witness ==
  /\ BatchDone /\ BatchN >= 2 /\ NoFailure
  /\ Len(Statuses) = BatchN

\* C3: every derived save file lies in the directory of its source file and
\* is named <stem of the source>_<TargetLanguage>_<timestamp>.lrc.
C3_SavedBesideSource ==
  \A f \in saved :
    /\ f.path.dir = f.src.dir
    /\ f.path.stem = f.src.stem
    /\ f.path.lang \in Langs
    /\ f.path.ts \in 0..MaxTime
    /\ f.path.ext = "lrc"

\* C4: when a batch of N >= 2 files finishes and all N writes succeeded, N
\* derived save files exist, one per item.
C4_OneSavePerItem ==
  (BatchDone /\ BatchN >= 2 /\ Len(SelectSeq(log, IsSaveOk)) = BatchN) =>
    Cardinality(saved) = BatchN

\* C5: at most one engine call is in flight: every call is issued only when
\* all earlier calls have had their finished/error slot run, the worker is in
\* flight exactly when one call is unresolved, and the controls are enabled
\* only when no call is in flight.
C5_AtMostOneCallInFlight ==
  /\ \A j \in 1..Len(log) :
       log[j].ev = "call" =>
         Len(SelectSeq(SubSeq(log, 1, j - 1), IsCall))
           = Len(SelectSeq(SubSeq(log, 1, j - 1), IsResolution))
  /\ LET outstanding == Len(SelectSeq(log, IsCall))
                          - Len(SelectSeq(log, IsResolution))
     IN  /\ outstanding \in {0, 1}
         /\ InFlight <=> outstanding = 1
  /\ buttons_enabled => ~InFlight

C5_Witness ==
  /\ InFlight /\ worker.mode = "batch" /\ worker.idx = 1
  /\ Has("call_ok", 0)

\* C6: the items of a batch are taken in input order, and before item i+1 is
\* read item i has its terminal status and, when Translated, its derived save
\* has been attempted.
C6_InOrderFullyResolved ==
  IsBatch =>
    /\ \A j \in 1..Len(Reads) : Reads[j].i = j - 1
    /\ \A a, b \in 1..Len(log) :
         (a < b /\ log[a].ev \in ItemEvs /\ log[b].ev \in ItemEvs)
           => log[a].i <= log[b].i
    /\ \A j \in 1..Len(log) :
         (IsRead(log[j]) /\ log[j].i > 0) =>
           LET i == log[j].i - 1
           IN  \E p \in 1..(j - 1) :
                 /\ log[p] \in {Ev("Translated", i), Ev("Error", i)}
                 /\ log[p].ev = "Translated" =>
                      \E q \in (p + 1)..(j - 1) :
                        log[q] \in {Ev("save_ok", i), Ev("save_fail", i)}

C6_Witness ==
  /\ IsBatch
  /\ Has("Translated", 0) /\ Has("save_ok", 0)
  /\ Has("read_ok", 1)

\* C7: the batch sequencer is only ever started with totalCount >= 2.
C7_NeverBatchOfOne == IsBatch => BatchN >= 2

\* An accepted open_files dialog returning paths.
OpenStep(paths, rd) ==
  /\ UserCan
  /\ Install(open_files(Cur, paths, rd))
  /\ UNCHANGED << engine, lang, api_key >>

\* C8: after an open of exactly one file the batch path list is empty, and
\* after an open of two or more files the input text is empty.
C8_OpenIsModeExclusive ==
  [][ \A paths \in Selections, rd \in BOOLEAN :
        OpenStep(paths, rd) =>
          /\ Len(paths) = 1 => file_paths' = << >>
          /\ Len(paths) >= 2 => input_text' = "" ]_vars

\* C9: 0 <= cursor <= totalCount always; during a batch the cursor is the
\* number of +1 steps taken since it was set to 0 and is below totalCount;
\* Finished is declared exactly when the cursor has reached totalCount, and
\* is the last event of the run.
C9_CursorInvariant ==
  /\ 0 <= current_file_index
  /\ current_file_index <= total_files
  /\ IsBatch =>
       /\ \A j \in 1..Len(CursorEvs) : CursorEvs[j].i = j
       /\ \A j \in 1..Len(log) :
            log[j].ev = "finished" =>
              (j = Len(log) /\ log[j].i = BatchN /\ Len(CursorEvs) = BatchN)
       /\ ~BatchDone =>
            /\ current_file_index = Len(CursorEvs)
            /\ total_files = BatchN
            /\ current_file_index < total_files

C9_Witness ==
  /\ BatchDone /\ BatchN = 2
  /\ Len(CursorEvs) = 2

\* C10: a sequencer started with no path finishes in the same step: nothing
\* is read, no call is issued, no status is set, nothing is saved.
C10_EmptyBatchFinishesAtOnce ==
  (log # << >> /\ log[1] = Ev("start", 0)) =>
    /\ log = << Ev("start", 0), Ev("finished", 0) >>
    /\ saved = {}
    /\ file_list = << >>
    /\ ~InFlight
    /\ buttons_enabled
    /\ current_file_index = 0
    /\ total_files = 0

C10_Witness == log = << Ev("start", 0), Ev("finished", 0) >>

\* The lines of a text, counted by its line breaks.
LineCount(t) == 1 + Cardinality({ j \in 1..Len(t) : t[j] = NL })

\* The prefix the local engine is to put before line n (counted from 1).
ExpectedPrefix(n) ==
  << "[", IF lt_lang = "english" THEN "ENGLISH" ELSE "CHINESE", " " >>
    \o Str(n) \o << "]", " " >>

\* C11: for every non-empty text T and target language L the local engine's
\* output has exactly as many lines as T, and its line i (from 0) is the
\* prefix [L_UPPER i+1] followed by the unchanged line i of T.
C11_LocalOutputLineByLine ==
  \A p \in 1..Len(lt_out) :
    LET T == PassInput(p)
        out == lt_out[p]
    IN  T # << >> =>
          /\ out.sig = "finished"
          /\ LineCount(out.val) = LineCount(T)
          /\ Len(Split(out.val)) = Len(Split(T))
          /\ \A k \in 1..Len(Split(T)) :
               Split(out.val)[k] = ExpectedPrefix(k) \o Split(T)[k]

C11_Witness ==
  /\ Len(lt_out) >= 1
  /\ lt_text = << "a", NL, "a" >>

\* C12: the local engine is not idempotent: for every non-empty text T the
\* second pass differs from the first, and every line of the second pass
\* carries the prefix twice in front of the original line.
C12_LocalNotIdempotent ==
  (Len(lt_out) >= 2 /\ lt_text # << >>) =>
    /\ lt_out[2].val # lt_out[1].val
    /\ Len(Split(lt_out[2].val)) = Len(Split(lt_text))
    /\ \A k \in 1..Len(Split(lt_text)) :
         Split(lt_out[2].val)[k]
           = ExpectedPrefix(k) \o ExpectedPrefix(k) \o Split(lt_text)[k]

C12_Witness ==
  /\ Len(lt_out) = 2
  /\ LineCount(lt_text) >= 2
  /\ lt_lang = "english"

\* C13: once a batch is started, and every issued engine call resolves, the
\* batch reaches Finished whatever reads, engine calls and writes fail.
C13_BatchTerminates == (IsBatch /\ ~BatchDone) ~> BatchDone

\* What comes after the cursor step to k + 1 at log[j]: the read of item
\* k + 1, or Finished after the last item.
GoesOnAfter(j, k) ==
  /\ Len(log) >= j + 1
  /\ log[j] = Ev("cursor", k + 1)
  /\ IF k + 1 < BatchN
     THEN log[j + 1] \in {Ev("read_ok", k + 1), Ev("read_fail", k + 1)}
     ELSE log[j + 1] = Ev("finished", BatchN)

\* C14: when the engine call of batch item k fails, or no engine instance
\* can be created for it, item k is marked Error, an error box names item
\* k's file, the cursor goes up by exactly one and the sequencer goes on to
\* item k+1; no save file is written for item k.
C14_FailForwardOnEngineFailure ==
  IsBatch =>
    \A j \in 1..Len(log) :
      log[j].ev \in {"call_err", "create_fail"} =>
        LET k == log[j].i
        IN  /\ Len(log) >= j + 2
            /\ log[j + 1] = Ev("Error", k)
            /\ GoesOnAfter(j + 2, k)
            /\ Len(SelectSeq(log, IsCursor)) >= k + 1
            /\ file_list[k + 1].st = << "Error" >>
            /\ \E b \in reported : b.item = k
            /\ \A b \in reported :
                 b.item = k =>
                   b = Box("Batch Translation Error", k,
                           file_list[k + 1].name)
            /\ ~Has("save_ok", k) /\ ~Has("save_fail", k)
            /\ \A f \in saved : f.item # k

C14_Witness ==
  /\ BatchDone
  /\ Has("call_err", 0)
  /\ Has("create_fail", 1)

C16_AtMostOnce ==
  /\ \A n \in 1..Len(file_list) : Len(file_list[n].st) <= 1
  /\ IsBatch =>
       \A j \in 1..Len(log) :
         IsStatus(log[j]) =>
           /\ j > 1
           /\ log[j - 1] \in {Ev("call_ok", log[j].i), Ev("call_err", log[j].i),
                              Ev("read_fail", log[j].i),
                              Ev("create_fail", log[j].i)}
           /\ log[j - 1].ev = "call_ok" <=> log[j].ev = "Translated"

\* While a call of a batch is unresolved the cursor indexes the item its
\* worker was started for.
C16_CursorAtWorkersItem ==
  (InFlight /\ worker.mode = "batch") =>
    /\ worker.idx = current_file_index
    /\ current_file_index < Len(file_paths)
    /\ worker.filename = basename(file_paths[current_file_index + 1])

\* When a batch has finished every one of its items has a status.
C16_EveryItemResolved ==
  BatchDone =>
    \A k \in 0..(BatchN - 1) :
      /\ HasItem(file_list, k)
      /\ Len(file_list[k + 1].st) = 1
      /\ file_list[k + 1].st[1] \in {"Translated", "Error"}

\* C16: within one batch run every item receives exactly one terminal
\* status (Translated or Error), never both and never twice, and it is set
\* on the item whose read or engine call just resolved: while a call is
\* unresolved the cursor indexes the item the worker was started for.
C16_ExactlyOneTerminalStatus ==
  /\ C16_AtMostOnce
  /\ C16_CursorAtWorkersItem
  /\ C16_EveryItemResolved

\* C17: while the engine call of a batch item is unresolved the item's
\* status is Translating.
C17_TranslatingWhileInFlight ==
  (InFlight /\ worker.mode = "batch") =>
    /\ HasItem(file_list, worker.idx)
    /\ file_list[worker.idx + 1].st = << "Translating" >>

\* C18: a failure of the remote engine call is raised as exactly one
\* message: the invalid-API-key message when the error text contains the
\* invalid-authentication-credentials substring, otherwise the rate-limit
\* message when it contains the rate-limit-exceeded substring, otherwise the
\* raw error text prefixed with "API Error: "; the worker emits it as error,
\* never as a result, and an answer of the API is emitted as the result.
C18_RemoteErrorMapping ==
  glm_out # << >> =>
    /\ Len(glm_out) = 1
    /\ IF glm_api.raises
       THEN LET e == glm_api.val
                hasAuth == \E j \in 1..Len(e) :
                             e[j] = "Invalid authentication credentials"
                hasRate == \E j \in 1..Len(e) : e[j] = "Rate limit exceeded"
            IN  /\ glm_out[1].sig = "error"
                /\ hasAuth =>
                     glm_out[1].val =
                       << "Invalid API Key. Please check your API key in Settings." >>
                /\ (~hasAuth /\ hasRate) =>
                     glm_out[1].val =
                       << "API Rate Limit Exceeded. Please wait and try again later." >>
                /\ (~hasAuth /\ ~hasRate) =>
                     glm_out[1].val = << "API Error: " >> \o e
       ELSE glm_out[1] = [sig |-> "finished", val |-> glm_api.val]

C18_Witness ==
  /\ glm_out # << >>
  /\ glm_api = [raises |-> TRUE,
                val |-> << "Rate limit exceeded",
                           "Invalid authentication credentials" >>]

\* The run in the log is a single-file translation.
IsSingle == log # << >> /\ log[1].ev = "single"
Calls == SelectSeq(log, IsCall)

\* In a single-file run: no file has been written by the handlers, at most
\* one call was issued, and exactly one once the worker has been started
\* (none when no engine instance could be created).
C19_SingleRun ==
  IsSingle =>
    /\ saved = {}
    /\ Len(Calls) <= 1
    /\ (InFlight \/ Has("call_ok", 0) \/ Has("call_err", 0)) => Len(Calls) = 1
    /\ Has("create_fail", 0) => Len(Calls) = 0
    /\ file_paths = << >>

C20_AfterFailure ==
  /\ (IsSingle /\ (Has("call_err", 0) \/ Has("create_fail", 0))) =>
       /\ Box("Error", 0, NoName) \in reported
       /\ buttons_enabled
       /\ ~InFlight
       /\ Len(Calls) <= 1
  /\ IsBatch =>
       \A k \in 0..(BatchN - 1) :
         Cardinality({ j \in 1..Len(log) : log[j] = Ev("call", k) }) <= 1

\* C20: no automatic retry: a failed single-file translation surfaces the
\* error, re-enables the controls and leaves no call in flight, a new call of
\* a single-file translation is issued only by a Translate action, and a
\* batch issues at most one call per item.
C20_NoAutomaticRetry ==
  [][ /\ C20_AfterFailure'
      /\ (worker'.mode = "single" /\ worker'.st = "calling"
            /\ worker.st # "calling") => StartTranslation ]_vars

C20_Witness ==
  /\ IsSingle
  /\ Has("call_err", 0)
  /\ buttons_enabled

\* C21: worker hand-over: whenever a slot of the sequencer replaces the
\* worker of the previous batch item by the worker of the next one, the
\* thread of the previous worker has already ended; a worker that has
\* emitted finished/error is never replaced while it is still running.
C21_WorkerHandOver ==
  [][ ( /\ ~crashed
        /\ worker.mode = "batch"
        /\ worker.st \in {"finished", "error"}
        /\ (crashed' \/ worker'.st = "calling") ) => ~worker.alive ]_vars

\* A batch has been started and has not reached Finished.
BatchRunning == IsBatch /\ ~BatchDone

\* While a batch runs the five controls of set_buttons_enabled are disabled,
\* and a call in flight is a call of the batch, issued with the engine and
\* the target language that are selected.
C22_WhileRunning ==
  BatchRunning =>
    /\ ~buttons_enabled
    /\ InFlight =>
         /\ worker.mode = "batch"
         /\ worker.engine = engine
         /\ worker.target_lang = Lower(lang)

\* C22: from the start of a batch until Finished the open, translate and
\* settings controls and the two selectors stay disabled; path list, engine,
\* target language and API key do not change during the run, so every item
\* is translated with the engine and the target language selected when the
\* batch started; no other batch or single-file translation starts; and the
\* controls are enabled again only in the step that reaches Finished.
C22_ControlsLockedDuringBatch ==
  [][ /\ C22_WhileRunning'
      /\ BatchRunning =>
           /\ IsBatch'
           /\ log'[1] = log[1]
           /\ UNCHANGED << engine, lang, api_key >>
           /\ ~BatchDone' => UNCHANGED file_paths
           /\ buttons_enabled' => BatchDone'
           /\ ~(StartTranslation \/ OpenFiles \/ OpenSettings
                  \/ SelectEngine \/ SelectLang) ]_vars

C22_Witness ==
  /\ BatchRunning
  /\ Has("Translated", 0)
  /\ Has("call", 1)
  /\ InFlight
  /\ worker.engine = GLM
  /\ ~buttons_enabled

\* start_translation returns at one of its three warnings: the remote engine
\* is selected and no API key is stored, or (single-file mode) the input text
\* is empty once stripped.
C23_Refused ==
  \/ engine = GLM /\ api_key = ""
  \/ file_paths = << >> /\ Strip(input_text) = ""

\* No call of the remote engine is in flight without a stored API key.
C23_NoCallWithoutKey ==
  (InFlight /\ worker.engine = GLM) => api_key # ""

\* C23: credential guard: with GLM-4-Flash selected and no API key stored, a
\* Translate action, in single-file mode and in batch mode alike, issues no
\* engine call and leaves the whole state unchanged (path list, cursor,
\* total_files, item statuses, controls still enabled); a single-file
\* Translate with empty input text starts nothing either.
C23_CredentialGuard ==
  [][ /\ C23_NoCallWithoutKey'
      /\ (C23_Refused /\ StartTranslation) => UNCHANGED vars ]_vars

C23_Witness ==
  /\ engine = GLM
  /\ api_key = ""
  /\ buttons_enabled
  /\ ~crashed
  /\ file_paths # << >>
  /\ Len(file_list) = Len(file_paths)
  /\ log = << Ev("open", Len(file_paths)) >>
  /\ ~InFlight

====
